---- MODULE Spec2Model ----
(***************************************************************************)
(* Model of the ReAct travel assistant (src/1.3*.py, the only script whose *)
(* name starts with 1.3) and of the chat client HelloAgentsLLM             *)
(* (src/chapter4/llm_client.py).  The Chinese messages of the source are   *)
(* written here in English.                                                *)
(*                                                                         *)
(* Text is a sequence of lexemes.  A lexeme is one of the literals the     *)
(* script's regular expressions look for ("Thought:", "Action:", "(", a    *)
(* double quote, a newline, ...) or an identifier or word that matches     *)
(* \w+ as a whole.  No lexeme ends in a word character unless it is a      *)
(* word, so the boundaries of \w+ runs fall on lexeme boundaries.          *)
(***************************************************************************)
EXTENDS Integers, Sequences, FiniteSets, TLC

VARIABLES prompt_history, full_prompt, rounds, pc, stdout, llm_calls,
          tool_calls, api_outcome,
          nRaw, nStripped, nOut, nAction, nStage,
          thinkPc, collected_content, thinkFailed, responseText

vars == <<prompt_history, full_prompt, rounds, pc, stdout, llm_calls,
          tool_calls, api_outcome, nRaw, nStripped, nOut, nAction, nStage,
          thinkPc, collected_content, thinkFailed, responseText>>

loopVars == <<prompt_history, full_prompt, rounds, pc, stdout, llm_calls,
              tool_calls, api_outcome>>
textVars == <<nRaw, nStripped, nOut, nAction, nStage>>
thinkVars == <<thinkPc, collected_content, thinkFailed, responseText>>

----------------------------------------------------------------------------
(* Lexemes *)

TH == "Thought:"
AC == "Action:"
OB == "Observation:"
SP == " "
NL == "\n"
TO == "<think>"
TC == "</think>"
LP == "("
RP == ")"
EQ == "="
QT == "\""
CM == ","

\* lexemes that match \w+ as a whole
WordTokens == {"finish", "finish_trip", "answer", "get_weather",
               "get_attraction", "city", "weather", "town", "Harbin",
               "sunny", "park", "book_hotel", "need", "done", "x", "y",
               "secret"}

IsWord(tok) == tok \in WordTokens

\* \s and str.strip(): the whitespace lexemes
IsSpace(tok) == tok \in {SP, NL}

\* str.startswith("finish") on the first lexeme
HasFinishPrefix(tok) == tok \in {"finish", "finish_trip"}

Min(S) == CHOOSE x \in S : \A y \in S : x <= y
Max(S) == CHOOSE x \in S : \A y \in S : x >= y

Positions(s, tok) == {k \in 1..Len(s) : s[k] = tok}

Tail2(s, k) == SubSeq(s, k, Len(s))

\* str.strip()
strip(s) ==
  LET ns == {k \in 1..Len(s) : ~IsSpace(s[k])}
  IN IF ns = {} THEN <<>> ELSE SubSeq(s, Min(ns), Max(ns))

\* "\n".join(list)
RECURSIVE join(_)
join(list) ==
  IF Len(list) = 0 THEN <<>>
  ELSE IF Len(list) = 1 THEN list[1]
  ELSE list[1] \o <<NL>> \o join(Tail(list))

\* number of "Action:" markers in a text
CountActions(s) == Cardinality(Positions(s, AC))

----------------------------------------------------------------------------
(* Output normalisation, lines 204-219 *)

\* re.search(r'<think>(.*?)</think>', llm_output, re.DOTALL)
ThinkOpens(s) == {i \in Positions(s, TO) : \E j \in Positions(s, TC) : j > i}
think_match(s) == ThinkOpens(s) # {}

\* re.sub(r'<think>.*?</think>', '', llm_output, flags=re.DOTALL)
RECURSIVE SubThink(_)
SubThink(s) ==
  IF ~think_match(s) THEN s
  ELSE LET i == Min(ThinkOpens(s))
           j == Min({c \in Positions(s, TC) : c > i})
       IN SubSeq(s, 1, i - 1) \o SubThink(Tail2(s, j + 1))

\* lines 206-210
StripThink(s) == IF think_match(s) THEN strip(SubThink(s)) ELSE s

\* the lookahead (?=\n\s*(?:Thought:|Action:|Observation:)|\Z) at position e
Lookahead(s, e) ==
  \/ e = Len(s) + 1
  \/ /\ e <= Len(s)
     /\ s[e] = NL
     /\ \E m \in (e + 1)..Len(s) :
          /\ s[m] \in {TH, AC, OB}
          /\ \A k \in (e + 1)..(m - 1) : IsSpace(s[k])

\* start positions of Thought:.*?Action:
TruncStarts(s) == {t \in Positions(s, TH) : \E a \in Positions(s, AC) : a > t}

\* re.search(r'(Thought:.*?Action:.*?)(?=...)', llm_output, re.DOTALL)
match(s) == TruncStarts(s) # {}

\* match.group(1)
matchGroup(s) ==
  LET t == Min(TruncStarts(s))
      a == Min({p \in Positions(s, AC) : p > t})
      e == Min({q \in (a + 1)..(Len(s) + 1) : Lookahead(s, q)})
  IN SubSeq(s, t, e - 1)

\* lines 214-218
Truncate(s) ==
  IF match(s)
  THEN LET truncated == strip(matchGroup(s))
       IN IF truncated # strip(s) THEN truncated ELSE s
  ELSE s

\* lines 206-218: the text that is appended to prompt_history
Normalize(raw) == Truncate(StripThink(raw))

----------------------------------------------------------------------------
(* Action parsing, lines 224-255 *)

\* re.search(r"Action: (.*)", llm_output, re.DOTALL): positions of "Action: "
ActionStarts(s) == {a \in Positions(s, AC) : a < Len(s) /\ s[a + 1] = SP}
action_match(s) == ActionStarts(s) # {}

\* the text after the last "Action: " instead of the first
action_str_last(s) == strip(Tail2(s, Max(ActionStarts(s)) + 2))

\* action_match.group(1).strip()
action_str(s) == strip(Tail2(s, Min(ActionStarts(s)) + 2))

\* a test for the call syntax finish( instead of the prefix finish
startswith_finish_call(a) == Len(a) > 1 /\ a[1] = "finish" /\ a[2] = LP

\* action_str.startswith("finish")
startswith_finish(a) == Len(a) > 0 /\ HasFinishPrefix(a[1])

\* the literal finish\(answer=" of the final-answer pattern
FinishOpen == <<"finish", LP, "answer", EQ, QT>>

\* the same pattern without re.DOTALL: "." stops at a newline
FinishStartsNoDotall(a) ==
  {p \in 1..Len(a) :
     /\ p + 4 <= Len(a)
     /\ SubSeq(a, p, p + 4) = FinishOpen
     /\ \E q \in (p + 5)..(Len(a) - 1) :
          /\ a[q] = QT /\ a[q + 1] = RP
          /\ \A m \in (p + 5)..(q - 1) : a[m] # NL}

\* re.search(r'finish\(answer="(.*)"\)', action_str, re.DOTALL)
FinishStarts(a) ==
  {p \in 1..Len(a) :
     /\ p + 4 <= Len(a)
     /\ SubSeq(a, p, p + 4) = FinishOpen
     /\ \E q \in (p + 5)..(Len(a) - 1) : a[q] = QT /\ a[q + 1] = RP}
final_answer_match(a) == FinishStarts(a) # {}

\* a non-greedy (.*?) would stop at the first ")
final_answer_lazy(a) ==
  LET p == Min(FinishStarts(a))
      q == Min({c \in (p + 5)..(Len(a) - 1) : a[c] = QT /\ a[c + 1] = RP})
  IN SubSeq(a, p + 5, q - 1)

\* final_answer_match.group(1): (.*) is greedy, it runs to the last ")
final_answer(a) ==
  LET p == Min(FinishStarts(a))
      q == Max({c \in (p + 5)..(Len(a) - 1) : a[c] = QT /\ a[c + 1] = RP})
  IN SubSeq(a, p + 5, q - 1)

\* re.search(r"(\w+)\(", action_str): positions of a "(" that follows a word
NameParens(a) == {k \in Positions(a, LP) : k > 1 /\ IsWord(a[k - 1])}
tool_name_match(a) == NameParens(a) # {}

\* .group(1): the maximal \w+ run in front of the first such "("
tool_name(a) ==
  LET k == Min(NameParens(a))
      s == Min({b \in 1..(k - 1) : \A m \in b..(k - 1) : IsWord(a[m])})
  IN SubSeq(a, s, k - 1)

\* re.search(r"\((.*)\)", action_str): "." does not match a newline
ArgOpens(a) ==
  {p \in Positions(a, LP) :
     \E q \in Positions(a, RP) :
        q > p /\ \A m \in (p + 1)..(q - 1) : a[m] # NL}
args_match(a) == ArgOpens(a) # {}

\* .group(1): greedy, up to the last ")" of the line
args_str(a) ==
  LET p == Min(ArgOpens(a))
      q == Max({c \in Positions(a, RP) :
                  c > p /\ \A m \in (p + 1)..(c - 1) : a[m] # NL})
  IN SubSeq(a, p + 1, q - 1)

\* start positions of (\w+)="([^"]*)" in s
PairEqs(s) ==
  {k \in Positions(s, EQ) :
     /\ k > 1 /\ IsWord(s[k - 1])
     /\ k < Len(s) /\ s[k + 1] = QT
     /\ \E q \in Positions(s, QT) : q > k + 1}

\* re.findall(r'(\w+)="([^"]*)"', args_str): the sequence of (key, value)
RECURSIVE findall(_)
findall(s) ==
  IF PairEqs(s) = {} THEN <<>>
  ELSE LET k == Min(PairEqs(s))
           b == Min({c \in 1..(k - 1) : \A m \in c..(k - 1) : IsWord(s[m])})
           q == Min({c \in Positions(s, QT) : c > k + 1})
       IN <<[key |-> SubSeq(s, b, k - 1), value |-> SubSeq(s, k + 2, q - 1)]>>
          \o findall(Tail2(s, q + 1))

\* dict(pairs): a later pair with the same key overrides an earlier one
dict(pairs) ==
  LET keys == {pairs[n].key : n \in 1..Len(pairs)}
  IN [k \in keys |->
        pairs[Max({n \in 1..Len(pairs) : pairs[n].key = k})].value]

\* line 255
kwargs(a) == dict(findall(args_str(a)))

\* lines 252-253: .group(1) of a failed search raises AttributeError
ParseRaises(a) == ~tool_name_match(a) \/ ~args_match(a)

\* lines 226-255: the action a normalised text parses to
ParseAction(s) ==
  IF ~action_match(s) THEN [kind |-> "Unparseable"]
  ELSE LET a == action_str(s)
       IN IF startswith_finish(a)
          THEN IF final_answer_match(a)
               THEN [kind |-> "Finish", action_str |-> a,
                     answer |-> final_answer(a)]
               ELSE [kind |-> "FinishUnparsed", action_str |-> a,
                     payload |-> a]
          ELSE IF ParseRaises(a)
               THEN [kind |-> "ParseError", action_str |-> a, payload |-> a]
          ELSE [kind |-> "ToolCall", action_str |-> a,
                name |-> tool_name(a), args |-> kwargs(a)]

----------------------------------------------------------------------------
(* Tools, lines 38-125.  A call returns a string or raises; net is what   *)
(* the network does during the call: "ok", "error" (a failure the tool     *)
(* catches itself) or "raise" (a failure the tool does not catch).  The    *)
(* field cause of a result says what went wrong during the call:           *)
(* "none", "network" (caught in the tool), "uncaught" or "binding" (the    *)
(* keyword arguments do not fit the signature).                            *)

NetOutcomes == {"ok", "error", "raise"}

Returned(text, cause) == [raised |-> FALSE, val |-> text, cause |-> cause]
Raised(exc, cause) == [raised |-> TRUE, val |-> <<exc>>, cause |-> cause]

\* lines 38-72.  "error" stands for both except branches (RequestException,
\* KeyError/IndexError): each returns an error string.  "raise" is any other
\* exception, e.g. a TypeError on a JSON document of another shape.
get_weather(args, net) ==
  IF DOMAIN args # {<<"city">>} THEN Raised("TypeError", "binding")
  ELSE IF net = "ok"
       THEN Returned(args[<<"city">>] \o <<" weather now: Sunny, -5 C">>,
                     "none")
  ELSE IF net = "error"
       THEN Returned(<<"error: network problem while querying the weather">>,
                     "network")
  ELSE Raised("ValueError", "uncaught")

\* lines 75-119.  TAVILY_API_KEY is set on line 175, so line 89 is not
\* taken.  "raise" is TavilyClient(...) raising on line 92, outside the try;
\* "error" is the except branch of line 118; "ok" stands for the returns of
\* lines 105, 113 and 116.
get_attraction(args, net) ==
  IF DOMAIN args # {<<"city">>, <<"weather">>}
  THEN Raised("TypeError", "binding")
  ELSE IF net = "raise" THEN Raised("TavilyClientError", "uncaught")
  ELSE IF net = "ok"
       THEN Returned(<<"recommended: ">> \o args[<<"city">>] \o <<SP>>
                     \o args[<<"weather">>], "none")
  ELSE Returned(<<"error: Tavily search failed">>, "network")

\* lines 122-125
available_tools == {<<"get_weather">>, <<"get_attraction">>}

\* line 261: available_tools[tool_name](**kwargs)
CallTool(name, args, net) ==
  IF name = <<"get_weather">> THEN get_weather(args, net)
  ELSE get_attraction(args, net)

\* an except branch that keeps only the exception
ExceptObservationBare(exc) == exc

\* line 266
ExceptObservation(exc) ==
  <<"error: parsing or running the tool failed - ">> \o exc

\* a lookup without the membership test raises KeyError into line 266
UnknownToolKeyError(name) == ExceptObservation(<<"KeyError">>)

\* line 263
UnknownToolObservation(name) ==
  <<"error: undefined tool ", "'">> \o name \o <<"'">>

\* lines 250-266: the observation of a round whose action is not a finish
observation(act, net) ==
  IF act.kind = "ParseError" THEN ExceptObservation(<<"AttributeError">>)
  ELSE IF act.name \in available_tools
       THEN LET r == CallTool(act.name, act.args, net)
            IN IF r.raised THEN ExceptObservation(r.val) ELSE r.val
  ELSE UnknownToolObservation(act.name)

\* the observation appended without its prefix
observation_bare(obs) == obs

\* line 270
observation_str(obs) == <<OB, SP>> \o obs

----------------------------------------------------------------------------
(* Model gateway, lines 132-160 *)

\* Python values: a str or None
Str(text) == [type |-> "str", val |-> text]
None == [type |-> "NoneType", val |-> <<>>]

\* line 160
GenerateError == <<"error: calling the language model service failed">>

\* texts the model can reply with
Thought(w) == <<TH, SP, w, NL>>
Act(call) == <<AC, SP>> \o call
Pair(k, v) == <<k, EQ, QT, v, QT>>
FinishCall(ans) == FinishOpen \o ans \o <<QT, RP>>
WeatherCall == <<"get_weather", LP>> \o Pair("city", "Harbin") \o <<RP>>
AttractionCall ==
  <<"get_attraction", LP>> \o Pair("city", "Harbin") \o <<CM, SP>>
    \o Pair("weather", "sunny") \o <<RP>>

ToolOutputs ==
  { Thought("need") \o Act(WeatherCall),
    Thought("need") \o Act(AttractionCall),
    \* a tool that is not registered
    Thought("need") \o Act(<<"book_hotel", LP>> \o Pair("city", "Harbin")
                           \o <<RP>>),
    \* no "(" after the identifier
    Thought("need") \o Act(<<"get_weather", SP, "Harbin">>),
    \* no closing ")"
    Thought("need") \o Act(<<"get_weather", LP>> \o Pair("city", "Harbin")),
    \* an argument name the tool does not have
    Thought("need") \o Act(<<"get_weather", LP>> \o Pair("town", "Harbin")
                           \o <<RP>>),
    \* a reasoning block nested in a reasoning block, inside the Thought
    <<TH, SP, "need", SP, TO, "x", TO, "y", TC, "secret", TC, NL>>
       \o Act(<<"book_hotel", LP>> \o Pair("city", "Harbin") \o <<RP>>) }

FinalOutputs ==
  { Thought("done") \o Act(FinishCall(<<"sunny", SP, "park">>)),
    \* an answer that itself contains ")
    Thought("done") \o Act(FinishCall(<<"x", QT, RP, SP, "y">>)),
    \* finish without the quoted answer
    Thought("done") \o Act(<<"finish", LP, "answer", EQ, "sunny", RP>>),
    \* plain text, no marker
    <<"sunny">>,
    <<>>,
    \* "Action:" with no space after it
    Thought("need") \o <<AC>> \o WeatherCall,
    \* two Action markers on one line
    <<TH, SP, "done", SP>> \o Act(FinishCall(<<"x">>)) \o <<SP>>
       \o Act(FinishCall(<<"y">>)),
    \* Action markers without a Thought marker
    Act(FinishCall(<<"x">>)) \o <<NL>> \o Act(FinishCall(<<"y">>)),
    \* a reasoning block in front of the pair
    <<TO, "x", TC, NL>> \o Thought("done") \o Act(FinishCall(<<"x">>)),
    \* the model goes on after its first pair
    Thought("need") \o Act(WeatherCall) \o <<NL, OB, SP, "sunny", NL>>
       \o Thought("done") \o Act(FinishCall(<<"y">>)),
    \* the call syntax of a tool whose name begins with finish
    Thought("done") \o Act(<<"finish_trip", LP>> \o Pair("city", "Harbin")
                           \o <<RP>>) }

ModelOutputs == ToolOutputs \cup FinalOutputs

\* what client.chat.completions.create does: a reply with content, a reply
\* whose message.content is null, or an exception
ApiResponses ==
  {[kind |-> "content", content |-> o] : o \in ModelOutputs}
    \cup {[kind |-> "null_content", content |-> <<>>],
          [kind |-> "exception", content |-> <<>>]}

\* an except branch that returns None, as HelloAgentsLLM.think does
generate_none(resp) ==
  IF resp.kind = "content" THEN Str(resp.content) ELSE None

\* lines 141-160
generate(resp) ==
  IF resp.kind = "exception" THEN Str(GenerateError)
  ELSE IF resp.kind = "null_content" THEN None
  ELSE Str(resp.content)

----------------------------------------------------------------------------
(* The ReAct loop, lines 184-275 *)

\* line 195: for i in range(5)
MaxRounds == 5

\* line 185-187
user_request == <<"user request: weather and attraction in Harbin">>

\* messages of lines 228, 242 and 246
ParseErrorMsg == [tag |-> "parse_error", text |-> <<>>]
FinalAnswerMsg(ans) == [tag |-> "final_answer", text |-> ans]
FinishUnparsedMsg(a) == [tag |-> "finish_unparsed", text |-> a]

\* api_outcome is what the create call of the latest round did (line 150)
LoopInit ==
  /\ prompt_history = <<user_request>>
  /\ full_prompt = <<>>
  /\ rounds = 0
  /\ pc = "running"
  /\ stdout = <<>>
  /\ llm_calls = 0
  /\ tool_calls = <<>>
  /\ api_outcome = "none"

\* an iteration that sends only the latest entry
BeginRoundLatest ==
  /\ pc = "running"
  /\ rounds < MaxRounds
  /\ rounds' = rounds + 1
  /\ full_prompt' = prompt_history[Len(prompt_history)]
  /\ llm_calls' = llm_calls + 1

\* lines 195-202: the start of an iteration
BeginRound ==
  /\ pc = "running"
  /\ rounds < MaxRounds
  /\ rounds' = rounds + 1
  /\ full_prompt' = join(prompt_history)
  /\ llm_calls' = llm_calls + 1

\* the texts generate can return, and what lines 206-218 make of each
GatewayTexts == ModelOutputs \cup {GenerateError}
NormalizeOf == [raw \in GatewayTexts |-> Normalize(raw)]
NormalizedTexts == {NormalizeOf[raw] : raw \in GatewayTexts}

\* lines 226-255 on each of them
ActionOf == [s \in NormalizedTexts |-> ParseAction(s)]

\* line 206: re.search on None raises TypeError, outside any try
RoundTypeError(resp) ==
  /\ BeginRound
  /\ api_outcome' = resp.kind
  /\ generate(resp).type # "str"
  /\ pc' = "crashed"
  /\ UNCHANGED <<prompt_history, stdout, tool_calls>>

\* lines 226-229 without the break
RoundNoActionNoBreak(resp) ==
  /\ BeginRound
  /\ api_outcome' = resp.kind
  /\ generate(resp).type = "str"
  /\ LET llm_output == NormalizeOf[generate(resp).val]
     IN /\ ActionOf[llm_output].kind = "Unparseable"
        /\ prompt_history' = Append(prompt_history, llm_output)
        /\ stdout' = Append(stdout, ParseErrorMsg)
  /\ pc' = IF rounds + 1 = MaxRounds THEN "done" ELSE "running"
  /\ UNCHANGED tool_calls

\* lines 226-229
RoundNoAction(resp) ==
  /\ BeginRound
  /\ api_outcome' = resp.kind
  /\ generate(resp).type = "str"
  /\ LET llm_output == NormalizeOf[generate(resp).val]
     IN /\ ActionOf[llm_output].kind = "Unparseable"
        /\ prompt_history' = Append(prompt_history, llm_output)
        /\ stdout' = Append(stdout, ParseErrorMsg)
  /\ pc' = "done"
  /\ UNCHANGED tool_calls

\* lines 238-246
FinishMessage(act) ==
  IF act.kind = "Finish" THEN FinalAnswerMsg(act.answer)
  ELSE FinishUnparsedMsg(act.payload)

\* lines 236-247
RoundFinish(resp) ==
  /\ BeginRound
  /\ api_outcome' = resp.kind
  /\ generate(resp).type = "str"
  /\ LET llm_output == NormalizeOf[generate(resp).val]
     IN /\ ActionOf[llm_output].kind \in {"Finish", "FinishUnparsed"}
        /\ prompt_history' = Append(prompt_history, llm_output)
        /\ stdout' = Append(stdout, FinishMessage(ActionOf[llm_output]))
  /\ pc' = "done"
  /\ UNCHANGED tool_calls

\* a loop bound that is off by one
AfterRoundOffByOne(n) == IF n = MaxRounds + 1 THEN "done" ELSE "running"

\* line 195: the loop ends after the fifth iteration
AfterRound(n) == IF n = MaxRounds THEN "done" ELSE "running"

\* lines 268-275
RecordObservation(llm_output, obs) ==
  /\ prompt_history' =
       prompt_history \o <<llm_output, observation_str(obs)>>
  /\ pc' = AfterRound(rounds + 1)
  /\ UNCHANGED stdout

\* lines 252-253 outside the try: the AttributeError ends the script
RoundMalformedUncaught(resp) ==
  /\ BeginRound
  /\ api_outcome' = resp.kind
  /\ generate(resp).type = "str"
  /\ LET llm_output == NormalizeOf[generate(resp).val]
     IN /\ ActionOf[llm_output].kind = "ParseError"
        /\ prompt_history' = Append(prompt_history, llm_output)
  /\ pc' = "crashed"
  /\ UNCHANGED <<stdout, tool_calls>>

\* lines 250-253, 265-275: the call syntax does not parse
RoundMalformed(resp) ==
  /\ BeginRound
  /\ api_outcome' = resp.kind
  /\ generate(resp).type = "str"
  /\ LET llm_output == NormalizeOf[generate(resp).val]
     IN /\ ActionOf[llm_output].kind = "ParseError"
        /\ RecordObservation(llm_output,
                             observation(ActionOf[llm_output], "ok"))
  /\ UNCHANGED tool_calls

\* an unknown tool that is skipped with continue, without an Observation
RoundUnknownToolSkip(resp) ==
  /\ BeginRound
  /\ api_outcome' = resp.kind
  /\ generate(resp).type = "str"
  /\ LET llm_output == NormalizeOf[generate(resp).val]
     IN /\ ActionOf[llm_output].kind = "ToolCall"
        /\ ActionOf[llm_output].name \notin available_tools
        /\ prompt_history' = Append(prompt_history, llm_output)
  /\ pc' = AfterRound(rounds + 1)
  /\ UNCHANGED <<stdout, tool_calls>>

\* lines 259-263, 268-275: the tool is not registered
RoundUnknownTool(resp) ==
  /\ BeginRound
  /\ api_outcome' = resp.kind
  /\ generate(resp).type = "str"
  /\ LET llm_output == NormalizeOf[generate(resp).val]
     IN /\ ActionOf[llm_output].kind = "ToolCall"
        /\ ActionOf[llm_output].name \notin available_tools
        /\ RecordObservation(llm_output,
                             observation(ActionOf[llm_output], "ok"))
  /\ UNCHANGED tool_calls

\* lines 259-261, 265-275: a registered tool is called
RoundCallTool(resp, net) ==
  /\ BeginRound
  /\ api_outcome' = resp.kind
  /\ generate(resp).type = "str"
  /\ LET llm_output == NormalizeOf[generate(resp).val]
         act == ActionOf[llm_output]
     IN /\ act.kind = "ToolCall"
        /\ act.name \in available_tools
        /\ tool_calls' =
             Append(tool_calls,
                    [name |-> act.name, args |-> act.args,
                     result |-> CallTool(act.name, act.args, net)])
        /\ RecordObservation(llm_output, observation(act, net))

----------------------------------------------------------------------------
(* The normaliser and the parser as functions of one text *)

MaxLen == 5

TextAlphabet == {TH, AC, NL, SP, "x"}

BoundedSeq(S, n) == UNION {[1..k -> S] : k \in 0..n}

\* texts with reasoning delimiters, paired, nested or unbalanced
ThinkAlphabet == {TO, TC, AC, SP, "x"}

\* answers of a finish action
MaxAnswer == 3
AnswerAlphabet == {"x", SP, NL, LP, RP, QT, AC}
FinishTexts ==
  {Act(FinishCall(X)) : X \in BoundedSeq(AnswerAlphabet, MaxAnswer)}

TextInputs ==
  BoundedSeq(TextAlphabet, MaxLen) \cup BoundedSeq(ThinkAlphabet, MaxLen)
    \cup FinishTexts

NotParsed == [kind |-> "NotParsed"]

TextIdle ==
  /\ nRaw = <<>>
  /\ nStripped = <<>>
  /\ nOut = <<>>
  /\ nAction = NotParsed
  /\ nStage = "idle"

TextInit ==
  /\ nRaw \in TextInputs
  /\ nStripped = <<>>
  /\ nOut = <<>>
  /\ nAction = NotParsed
  /\ nStage = "raw"

\* lines 206-210
ApplyStripThink ==
  /\ nStage = "raw"
  /\ nStripped' = StripThink(nRaw)
  /\ nStage' = "stripped"
  /\ UNCHANGED <<nRaw, nOut, nAction>>

\* lines 214-218
ApplyTruncate ==
  /\ nStage = "stripped"
  /\ nOut' = Truncate(nStripped)
  /\ nStage' = "normalized"
  /\ UNCHANGED <<nRaw, nStripped, nAction>>

\* lines 226-255
ApplyParse ==
  /\ nStage = "normalized"
  /\ nAction' = ParseAction(nOut)
  /\ nStage' = "parsed"
  /\ UNCHANGED <<nRaw, nStripped, nOut>>

----------------------------------------------------------------------------
(* HelloAgentsLLM.think, src/chapter4/llm_client.py lines 46-87 *)

MaxChunks == 4

\* chunk.choices[0].delta.content: a piece of text or None
ChunkContents == {Str(<<"x">>), Str(<<"y">>), None}

ThinkIdle ==
  /\ thinkPc = "idle"
  /\ collected_content = <<>>
  /\ thinkFailed = FALSE
  /\ responseText = None

ThinkInit ==
  /\ thinkPc = "call"
  /\ collected_content = <<>>
  /\ thinkFailed = FALSE
  /\ responseText = None

\* "".join(collected_content)
RECURSIVE concat(_)
concat(list) ==
  IF Len(list) = 0 THEN <<>> ELSE Head(list) \o concat(Tail(list))

\* lines 64-76: the request is accepted and the stream opens
ThinkCreate ==
  /\ thinkPc = "call"
  /\ thinkPc' = "stream"
  /\ UNCHANGED <<collected_content, thinkFailed, responseText>>

\* line 78: content = chunk.choices[0].delta.content or ""
ChunkText(c) == IF c.type = "str" THEN c.val ELSE <<>>

\* lines 77-80: one chunk of the stream
ThinkChunk(c) ==
  /\ thinkPc = "stream"
  /\ Len(collected_content) < MaxChunks
  /\ collected_content' = Append(collected_content, ChunkText(c))
  /\ UNCHANGED <<thinkPc, thinkFailed, responseText>>

\* lines 81-82: the stream ends
ThinkReturn ==
  /\ thinkPc = "stream"
  /\ responseText' = Str(concat(collected_content))
  /\ thinkPc' = "returned"
  /\ UNCHANGED <<collected_content, thinkFailed>>

\* line 87: what think returns from its except branch
ThinkExceptValue == None

\* lines 84-87: create() or the stream raises
ThinkExcept ==
  /\ thinkPc \in {"call", "stream"}
  /\ thinkFailed' = TRUE
  /\ responseText' = ThinkExceptValue
  /\ thinkPc' = "returned"
  /\ UNCHANGED collected_content

----------------------------------------------------------------------------
(* Specifications *)

Init == LoopInit /\ TextIdle /\ ThinkIdle

Next ==
  \/ \E resp \in ApiResponses :
       RoundTypeError(resp) /\ UNCHANGED <<textVars, thinkVars>>
  \/ \E resp \in ApiResponses :
       RoundNoAction(resp) /\ UNCHANGED <<textVars, thinkVars>>
  \/ \E resp \in ApiResponses :
       RoundFinish(resp) /\ UNCHANGED <<textVars, thinkVars>>
  \/ \E resp \in ApiResponses :
       RoundMalformed(resp) /\ UNCHANGED <<textVars, thinkVars>>
  \/ \E resp \in ApiResponses :
       RoundUnknownTool(resp) /\ UNCHANGED <<textVars, thinkVars>>
  \/ \E resp \in ApiResponses : \E net \in NetOutcomes :
       RoundCallTool(resp, net) /\ UNCHANGED <<textVars, thinkVars>>

Spec == Init /\ [][Next]_vars

InitText == LoopInit /\ TextInit /\ ThinkIdle

NextText ==
  \/ ApplyStripThink /\ UNCHANGED <<loopVars, thinkVars>>
  \/ ApplyTruncate /\ UNCHANGED <<loopVars, thinkVars>>
  \/ ApplyParse /\ UNCHANGED <<loopVars, thinkVars>>

SpecText == InitText /\ [][NextText]_vars

InitThink == LoopInit /\ TextIdle /\ ThinkInit

NextThink ==
  \/ ThinkCreate /\ UNCHANGED <<loopVars, textVars>>
  \/ \E c \in ChunkContents : ThinkChunk(c) /\ UNCHANGED <<loopVars, textVars>>
  \/ ThinkReturn /\ UNCHANGED <<loopVars, textVars>>
  \/ ThinkExcept /\ UNCHANGED <<loopVars, textVars>>

SpecThink == InitThink /\ [][NextThink]_vars

----------------------------------------------------------------------------
(* Properties *)

Last(q) == q[Len(q)]

\* a step of the loop that appends to the transcript, and what it appends
Stepped == Len(prompt_history') > Len(prompt_history)
NewTurn == prompt_history'[Len(prompt_history) + 1]
NewObservation == prompt_history'[Len(prompt_history) + 2]

\* nothing is sent to the model, no tool runs and nothing is appended
Frozen ==
  /\ llm_calls' = llm_calls
  /\ tool_calls' = tool_calls
  /\ prompt_history' = prompt_history

\* the action string is finish(answer="X"), and its X
CleanFinish(a) ==
  /\ Len(a) >= 7
  /\ SubSeq(a, 1, 5) = <<"finish", "(", "answer", "=", "\"">>
  /\ a[Len(a) - 1] = "\""
  /\ a[Len(a)] = ")"
AnswerOf(a) == SubSeq(a, 6, Len(a) - 2)

\* the turns whose action is finish(answer="X"), with the X of each
CleanFinishTurns ==
  {s \in NormalizedTexts : action_match(s) /\ CleanFinish(action_str(s))}
AnswerOfTurn == [s \in CleanFinishTurns |-> AnswerOf(action_str(s))]

\* the turns without an "Action:" marker
NoActionTurns == {s \in NormalizedTexts : CountActions(s) = 0}

\* the first lexeme of each error description the script produces
ErrorHeads ==
  {"error: undefined tool ",
   "error: parsing or running the tool failed - ",
   "error: network problem while querying the weather",
   "error: Tavily search failed"}
IsErrorText(t) == Len(t) > 0 /\ t[1] \in ErrorHeads

\* an entry that is "Observation: " followed by an error description
IsErrorObservation(e) ==
  /\ Len(e) > 2
  /\ SubSeq(e, 1, 2) = <<"Observation:", " ">>
  /\ IsErrorText(Tail2(e, 3))

\* the loop goes on to the next round when the budget allows one
Continues ==
  /\ pc' # "crashed"
  /\ stdout' = stdout
  /\ rounds' < MaxRounds => pc' = "running"

\* C1: a round whose action is finish(answer="X") ends the run in that round
\* with the answer X printed, without a tool call or an Observation; after
\* that the model is not called, no tool runs and nothing is appended.
C1_FinishEndsRun ==
  [][ /\ ( /\ pc = "running"
           /\ Stepped
           /\ NewTurn \in CleanFinishTurns )
         => /\ pc' = "done"
            /\ stdout' = Append(stdout,
                  [tag |-> "final_answer", text |-> AnswerOfTurn[NewTurn]])
            /\ prompt_history' = Append(prompt_history, NewTurn)
            /\ tool_calls' = tool_calls
      /\ ( /\ pc = "done"
           /\ stdout # <<>>
           /\ Last(stdout).tag = "final_answer" )
         => Frozen ]_vars

C1_Witness ==
  /\ pc = "done"
  /\ rounds > 1
  /\ stdout = <<[tag |-> "final_answer", text |-> <<"sunny", " ", "park">>]>>
  /\ CleanFinish(action_str(Last(prompt_history)))

\* C2: a round whose normalised output has no "Action:" marker reports the
\* parse error and ends the run in that round, without a tool call or an
\* Observation; after that the model is not called and no tool runs.
C2_NoActionAborts ==
  [][ /\ ( /\ pc = "running"
           /\ Stepped
           /\ NewTurn \in NoActionTurns )
         => /\ pc' = "done"
            /\ stdout' = Append(stdout, [tag |-> "parse_error", text |-> <<>>])
            /\ prompt_history' = Append(prompt_history, NewTurn)
            /\ tool_calls' = tool_calls
      /\ ( /\ pc = "done"
           /\ stdout # <<>>
           /\ Last(stdout).tag = "parse_error" )
         => Frozen ]_vars

C2_Witness ==
  /\ pc = "done"
  /\ rounds > 1
  /\ Len(tool_calls) > 0
  /\ CountActions(Last(prompt_history)) = 0
  /\ stdout = <<[tag |-> "parse_error", text |-> <<>>]>>

\* five rounds that all went through the tool branch
FiveToolRounds == Len(prompt_history) = 1 + 2 * MaxRounds

C4_NoFaultPropagates == pc \in {"running", "done"}

\* the turns that parse to a call of a tool that is not registered, with
\* the name each calls
UnknownToolTurns ==
  {s \in NormalizedTexts :
     /\ ParseAction(s).kind = "ToolCall"
     /\ ParseAction(s).name \notin {<<"get_weather">>, <<"get_attraction">>}}
UnknownNameOfTurn == [s \in UnknownToolTurns |-> ParseAction(s).name]

\* C5: a tool call to a name that is not registered invokes no tool, appends
\* "Observation: " and the unknown-tool error that names the tool, and the
\* loop goes on.
C5_UnknownToolContinues ==
  [][ ( /\ pc = "running"
        /\ Stepped
        /\ NewTurn \in UnknownToolTurns )
      => /\ tool_calls' = tool_calls
         /\ prompt_history' =
              prompt_history \o
                <<NewTurn,
                  <<"Observation:", " ", "error: undefined tool ", "'">>
                     \o UnknownNameOfTurn[NewTurn] \o <<"'">> >>
         /\ Continues ]_vars

C5_Witness ==
  /\ pc = "running"
  /\ rounds > 0
  /\ tool_calls = <<>>
  /\ Last(prompt_history) =
       <<"Observation:", " ", "error: undefined tool ", "'", "book_hotel", "'">>

\* the call syntax is malformed: no identifier followed by "(", or no
\* parenthesised argument list
Malformed(a) ==
  \/ \A k \in Positions(a, "(") : k = 1 \/ ~IsWord(a[k - 1])
  \/ \A p \in Positions(a, "(") : \A q \in Positions(a, ")") : q < p

\* the turns whose action is not a finish and is malformed
MalformedTurns ==
  {s \in NormalizedTexts :
     /\ action_match(s)
     /\ ~startswith_finish(action_str(s))
     /\ Malformed(action_str(s))}

\* C6: a round whose action is not a finish and has malformed call syntax
\* invokes no tool, appends an error Observation and goes on; it prints no
\* terminal message.
C6_MalformedCallRecovered ==
  [][ ( /\ pc = "running"
        /\ Stepped
        /\ NewTurn \in MalformedTurns )
      => /\ tool_calls' = tool_calls
         /\ Len(prompt_history') = Len(prompt_history) + 2
         /\ IsErrorObservation(NewObservation)
         /\ Continues ]_vars

C6_Witness ==
  /\ pc = "running"
  /\ rounds > 0
  /\ tool_calls = <<>>
  /\ prompt_history[Len(prompt_history) - 1] \in MalformedTurns
  /\ IsErrorObservation(Last(prompt_history))

\* C7: when the call of a registered tool fails (in the tool, uncaught by
\* the tool, or while binding the arguments) the round appends an error
\* Observation and the loop goes on.
C7_ToolFailureBecomesObservation ==
  [][ ( /\ Len(tool_calls') > Len(tool_calls)
        /\ Last(tool_calls').result.cause # "none" )
      => /\ Len(prompt_history') = Len(prompt_history) + 2
         /\ IsErrorObservation(NewObservation)
         /\ Continues ]_vars

C7_Witness ==
  /\ pc = "running"
  /\ \A c \in {"network", "uncaught", "binding"} :
        \E n \in 1..Len(tool_calls) : tool_calls[n].result.cause = c
  /\ IsErrorObservation(Last(prompt_history))

\* C8: both gateways return a non-empty error string when the chat
\* completion call fails.
C8_GatewaysReturnErrorString ==
  /\ \A resp \in ApiResponses :
        resp.kind = "exception" =>
           generate(resp).type = "str" /\ Len(generate(resp).val) > 0
  /\ (thinkPc = "returned" /\ thinkFailed) =>
        responseText.type = "str" /\ Len(responseText.val) > 0

\* C9: every model turn of the transcript (the entries at even positions,
\* lines 222 and 275) has at most one "Action:" marker.
C9_OneActionPerTurn ==
  \A k \in 1..Len(prompt_history) :
     k % 2 = 0 => CountActions(prompt_history[k]) <= 1

\* the span of C10: from the first "Thought:" through the first following
\* "Action:" up to the next marker or the end of the text
HasSpan(s) == \E t \in Positions(s, "Thought:") :
                \E a \in Positions(s, "Action:") : a > t
FirstSpan(s) ==
  LET t == Min(Positions(s, "Thought:"))
      a == Min({p \in Positions(s, "Action:") : p > t})
      e == Min({q \in (a + 1)..(Len(s) + 1) :
                  q = Len(s) + 1
                  \/ s[q] \in {"Thought:", "Action:", "Observation:"}})
  IN SubSeq(s, t, e - 1)

\* C10: for a text with two or more Action markers the normaliser returns
\* exactly the first Thought-through-Action span (compared up to the
\* whitespace at its ends).
C10_FirstSpanKept ==
  (nStage \in {"normalized", "parsed"} /\ CountActions(nStripped) >= 2)
    => /\ HasSpan(nStripped)
       /\ strip(nOut) = strip(FirstSpan(nStripped))

\* the reasoning delimiters
HasDelimiter(s) == \E n \in 1..Len(s) : s[n] \in {"<think>", "</think>"}

\* the raw output has a reasoning block: <think> with a later </think>
HasReasoningBlock(s) ==
  \E i, j \in 1..Len(s) : i < j /\ s[i] = "<think>" /\ s[j] = "</think>"

\* C11: for every raw output that contains a reasoning block, the text
\* handed to the parser and appended to the transcript contains neither
\* <think> nor </think>, also when the delimiters are repeated, nested or
\* unbalanced.
C11_DelimitersRemoved ==
  (nStage \in {"normalized", "parsed"} /\ HasReasoningBlock(nRaw))
    => ~HasDelimiter(nOut)

\* the lexemes from the first <think> to the last </think> of a raw output
InsideBlock(o) ==
  IF HasReasoningBlock(o)
  THEN LET i == Min({n \in 1..Len(o) : o[n] = "<think>"})
           j == Max({n \in 1..Len(o) : o[n] = "</think>"})
       IN {o[n] : n \in (i + 1)..(j - 1)} \ {"<think>", "</think>"}
  ELSE {}

\* the lexemes of a raw output that are outside its reasoning blocks
OutsideBlock(o) ==
  IF HasReasoningBlock(o)
  THEN LET i == Min({n \in 1..Len(o) : o[n] = "<think>"})
           j == Max({n \in 1..Len(o) : o[n] = "</think>"})
       IN {o[n] : n \in (1..(i - 1)) \cup ((j + 1)..Len(o))}
  ELSE {o[n] : n \in 1..Len(o)}

\* lexemes the model writes inside reasoning blocks and nowhere else
ReasoningOnly ==
  UNION {InsideBlock(o) : o \in ModelOutputs}
    \ UNION {OutsideBlock(o) : o \in ModelOutputs}

\* C12: text of a reasoning block is never fed back to the model: the prompt
\* sent to the gateway contains no text that appeared inside a reasoning
\* block of an earlier model output.
C12_ReasoningNotFedBack ==
  \A n \in 1..Len(full_prompt) : full_prompt[n] \notin ReasoningOnly

\* the text is Action: finish(answer="X") for some X
IsFinishText(s) ==
  /\ Len(s) >= 9
  /\ SubSeq(s, 1, 7) = <<"Action:", " ", "finish", "(", "answer", "=", "\"">>
  /\ SubSeq(s, Len(s) - 1, Len(s)) = <<"\"", ")">>

\* that X
AnswerIn(s) == SubSeq(s, 8, Len(s) - 2)

QuoteFree(X) == \A n \in 1..Len(X) : X[n] # "\""

\* C13: for every answer X that contains no double quote, parsing the action
\* finish(answer="X") yields Finish with answer exactly X.
C13_FinishRoundTrip ==
  (nStage = "parsed" /\ IsFinishText(nOut) /\ QuoteFree(AnswerIn(nOut)))
    => nAction.kind = "Finish" /\ nAction.answer = AnswerIn(nOut)

C13_Witness ==
  /\ nStage = "parsed"
  /\ nOut = <<"Action:", " ", "finish", "(", "answer", "=", "\"",
              "x", "\n", ")", "\"", ")">>
  /\ nAction.kind = "Finish"
  /\ nAction.answer = <<"x", "\n", ")">>

\* str.strip() written out: the text between its first and last lexeme that
\* is not whitespace
Trim(t) ==
  LET keep == {n \in 1..Len(t) : t[n] \notin {" ", "\n"}}
  IN IF keep = {} THEN <<>> ELSE SubSeq(t, Min(keep), Max(keep))

\* positions of an "Action:" marker, and of "Action: " (with the space)
Markers(s) == {n \in 1..Len(s) : s[n] = "Action:"}
SpacedMarkers(s) == {n \in Markers(s) : n < Len(s) /\ s[n + 1] = " "}

\* C14 as stated: for every normalised text with at least one "Action:"
\* marker the parser does not return Unparseable, and the action string it
\* classifies is the trimmed text after the last "Action:" marker.
C14_LastActionMarker ==
  (nStage = "parsed" /\ Markers(nOut) # {})
    => /\ nAction.kind # "Unparseable"
       /\ nAction.action_str =
            Trim(SubSeq(nOut, Max(Markers(nOut)) + 1, Len(nOut)))

\* C14 amended: the parser returns Unparseable exactly when the text has no
\* "Action: " (the marker followed by a space); otherwise the action string
\* it classifies is the trimmed text after the first "Action: ".
C14_FirstActionMarker ==
  nStage = "parsed"
    => IF SpacedMarkers(nOut) = {} THEN nAction.kind = "Unparseable"
       ELSE /\ nAction.kind # "Unparseable"
            /\ nAction.action_str =
                 Trim(SubSeq(nOut, Min(SpacedMarkers(nOut)) + 2, Len(nOut)))

C14_Witness ==
  /\ nStage = "parsed"
  /\ nOut = <<"Action:", " ", "x", "Action:", " ">>
  /\ nAction.kind = "ParseError"
  /\ nAction.action_str = <<"x", "Action:">>

\* the action string contains finish(answer=" with a later ")
MatchesFinishPattern(a) ==
  \E p, q \in 1..Len(a) :
    /\ p + 5 <= q
    /\ q < Len(a)
    /\ SubSeq(a, p, p + 4) = <<"finish", "(", "answer", "=", "\"">>
    /\ a[q] = "\""
    /\ a[q + 1] = ")"

\* the trimmed text after the first "Action: " of a turn
RawAction(s) == Trim(SubSeq(s, Min(SpacedMarkers(s)) + 2, Len(s)))

\* the turns whose action string starts with finish and does not match the
\* final-answer pattern, with the action string of each
BrokenFinishTurns ==
  {s \in NormalizedTexts :
     /\ SpacedMarkers(s) # {}
     /\ Len(RawAction(s)) > 0
     /\ RawAction(s)[1] \in {"finish", "finish_trip"}
     /\ ~MatchesFinishPattern(RawAction(s))}
RawActionOfTurn == [s \in BrokenFinishTurns |-> RawAction(s)]

\* C15: a round whose action string starts with "finish" and does not match
\* the final-answer pattern still ends the run in that round: the raw action
\* string is printed as the unparsed payload, no tool is called and no
\* Observation is appended, also when the string has the syntax of a call to
\* a tool whose name begins with "finish".
C15_BrokenFinishEndsRun ==
  [][ ( /\ pc = "running"
        /\ Stepped
        /\ NewTurn \in BrokenFinishTurns )
      => /\ pc' = "done"
         /\ stdout' = Append(stdout,
               [tag |-> "finish_unparsed", text |-> RawActionOfTurn[NewTurn]])
         /\ prompt_history' = Append(prompt_history, NewTurn)
         /\ tool_calls' = tool_calls ]_vars

C15_Witness ==
  /\ pc = "done"
  /\ rounds > 1
  /\ Len(prompt_history) = 2 * rounds
  /\ stdout = <<[tag |-> "finish_unparsed",
                 text |-> <<"finish_trip", "(", "city", "=", "\"", "Harbin",
                            "\"", ")">>]>>

\* the turns that parse to a call of a registered tool
RegisteredCallTurns ==
  {s \in NormalizedTexts :
     /\ ActionOf[s].kind = "ToolCall"
     /\ ActionOf[s].name \in {<<"get_weather">>, <<"get_attraction">>}}

\* the step logs one call of the tool the turn names, with the arguments the
\* turn parses to
CalledOnce ==
  /\ Len(tool_calls') = Len(tool_calls) + 1
  /\ SubSeq(tool_calls', 1, Len(tool_calls)) = tool_calls
  /\ Last(tool_calls').name = ActionOf[NewTurn].name
  /\ Last(tool_calls').args = ActionOf[NewTurn].args

\* C16 as stated: a round whose action is a call of a registered tool calls
\* the tool exactly once with exactly the parsed arguments, appends after the
\* model turn exactly one entry "Observation: " followed by the string the
\* tool returned, and raises the round count by one.
C16_ReturnedStringObserved ==
  [][ ( /\ pc = "running"
        /\ Stepped
        /\ NewTurn \in RegisteredCallTurns )
      => /\ CalledOnce
         /\ ~Last(tool_calls').result.raised
         /\ prompt_history' =
              prompt_history \o
                <<NewTurn,
                  <<"Observation:", " ">> \o Last(tool_calls').result.val>>
         /\ rounds' = rounds + 1 ]_vars

\* C16 amended: the entry is "Observation: " followed by the returned string
\* when the call returns, and by the error description of the exception when
\* the call raises.
C16_ToolCalledOnce ==
  [][ ( /\ pc = "running"
        /\ Stepped
        /\ NewTurn \in RegisteredCallTurns )
      => /\ CalledOnce
         /\ prompt_history' =
              prompt_history \o
                <<NewTurn,
                  IF Last(tool_calls').result.raised
                  THEN <<"Observation:", " ",
                         "error: parsing or running the tool failed - ">>
                         \o Last(tool_calls').result.val
                  ELSE <<"Observation:", " ">>
                         \o Last(tool_calls').result.val>>
         /\ rounds' = rounds + 1 ]_vars

C16_Witness ==
  /\ rounds = 2
  /\ Len(tool_calls) = 2
  /\ tool_calls[1].name = <<"get_weather">>
  /\ tool_calls[1].result.raised
  /\ prompt_history[3] =
       <<"Observation:", " ", "error: parsing or running the tool failed - ",
         "ValueError">>
  /\ tool_calls[2].name = <<"get_attraction">>
  /\ DOMAIN tool_calls[2].args = {<<"city">>, <<"weather">>}
  /\ tool_calls[2].args[<<"weather">>] = <<"sunny">>
  /\ ~tool_calls[2].result.raised
  /\ Last(prompt_history) =
       <<"Observation:", " ", "recommended: ", "Harbin", " ", "sunny">>

\* the length of the join of the first k - 1 entries and their separators
RECURSIVE Before(_, _)
Before(h, k) == IF k = 1 THEN 0 ELSE Before(h, k - 1) + Len(h[k - 1]) + 1

\* t is the entries of h in their order, with one newline between neighbours
IsJoinOf(t, h) ==
  /\ Len(t) = Before(h, Len(h)) + Len(h[Len(h)])
  /\ \A k \in 1..Len(h) :
       /\ SubSeq(t, Before(h, k) + 1, Before(h, k) + Len(h[k])) = h[k]
       /\ k > 1 => t[Before(h, k)] = "\n"

\* C17: the transcript is append-only (no entry is removed, reordered or
\* rewritten), its first entry is always the user request, and the prompt
\* sent in a round is the in-order join of every entry appended before that
\* round.
C17_AppendOnly ==
  [][ /\ Len(prompt_history') >= Len(prompt_history)
      /\ SubSeq(prompt_history', 1, Len(prompt_history)) = prompt_history
      /\ prompt_history'[1] =
           <<"user request: weather and attraction in Harbin">>
      /\ llm_calls' # llm_calls => IsJoinOf(full_prompt', prompt_history)
    ]_vars

C17_Witness ==
  /\ rounds = 3
  /\ Len(prompt_history) = 6
  /\ IsJoinOf(full_prompt, SubSeq(prompt_history, 1, 5))
  /\ Len(full_prompt) > 40

\* C18: when the call of the model service fails, the gateway is called once
\* in that round and not again, the failure does not abort the loop: the
\* error string is appended as the model turn and parsed, it has no Action
\* marker, so the parse error is reported and the run ends without a tool
\* call.
C18_GatewayFailureAborts ==
  [][ /\ llm_calls' <= llm_calls + 1
      /\ (llm_calls' # llm_calls /\ api_outcome' = "exception")
         => /\ rounds' = rounds + 1
            /\ prompt_history' =
                 Append(prompt_history,
                        <<"error: calling the language model service failed">>)
            /\ stdout' = Append(stdout, [tag |-> "parse_error", text |-> <<>>])
            /\ pc' = "done"
            /\ tool_calls' = tool_calls
      /\ (pc = "done" /\ api_outcome = "exception") => Frozen ]_vars

C18_Witness ==
  /\ pc = "done"
  /\ api_outcome = "exception"
  /\ rounds = 3
  /\ llm_calls = 3
  /\ Len(tool_calls) = 2
  /\ Last(prompt_history) =
       <<"error: calling the language model service failed">>
  /\ Last(stdout).tag = "parse_error"

\* at most one model call and one tool call per round, at most five rounds
WithinBudget ==
  /\ rounds <= 5
  /\ llm_calls = rounds
  /\ Len(tool_calls) <= rounds

\* C19: every run terminates: the loop is in a terminal state after at most
\* 5 rounds, with at most 5 model calls and at most 5 tool calls, at most
\* one of each per round.  The loop is either still within its rounds or in
\* a terminal state (finished or aborted).
C19_RunTerminates ==
  /\ WithinBudget
  /\ pc \in {"running", "done"}
  /\ pc = "running" => rounds < 5

\* an Observation entry, and a model turn
IsObservation(e) == Len(e) >= 2 /\ e[1] = "Observation:" /\ e[2] = " "
IsModelTurn(e) == e \in NormalizedTexts /\ ~IsObservation(e)

\* the run was ended by a finish or by a turn without an action: both print
EndedByTurn == pc = "done" /\ stdout # <<>>

\* the rounds that ran to their Observation
ObservedRounds ==
  IF EndedByTurn \/ pc = "crashed" THEN rounds - 1 ELSE rounds

\* C20: after the user request the transcript alternates model turn,
\* Observation, model turn, ...; its length is 1 + 2 * (completed tool
\* rounds), plus 1 when the run was ended by a finish or by a turn without an
\* action; it never exceeds 11; a run ended by a turn has a model turn last, a
\* run that used up its rounds has an Observation last.
C20_TranscriptShape ==
  /\ Len(prompt_history) =
       1 + 2 * ObservedRounds + (IF EndedByTurn THEN 1 ELSE 0)
  /\ Len(prompt_history) <= 11
  /\ \A n \in 2..Len(prompt_history) :
       IF n % 2 = 0 THEN IsModelTurn(prompt_history[n])
       ELSE IsObservation(prompt_history[n])
  /\ EndedByTurn => IsModelTurn(Last(prompt_history))
  /\ (pc = "done" /\ ~EndedByTurn)
       => Len(prompt_history) = 11 /\ IsObservation(Last(prompt_history))

C20_Witness ==
  /\ pc = "done"
  /\ stdout = <<>>
  /\ Len(prompt_history) = 11
  /\ IsObservation(prompt_history[11])
  /\ IsModelTurn(prompt_history[10])

====
